---------------------------- MODULE Spec2Model ----------------------------
(***************************************************************************)
(* The caffeine tracker of Coffee-to-GO: a mutex-guarded slice of intake   *)
(* events (Tracker), the decay summation over it and the 48-point          *)
(* forecast.  Goroutines are the net/http handler goroutines that call     *)
(* the Tracker's methods; every method is split at the points where        *)
(* another goroutine can be scheduled.                                     *)
(*                                                                         *)
(* Time is counted in ticks of 30 seconds from a midnight, so that two     *)
(* instants of one minute differ.  float64 values are carried as integers  *)
(* in units of 1 / (Scale * 2^HalfLivesKept) mg: math.Pow(0.5, x) is the   *)
(* table PowTable for the fractional part of x and an exact halving for    *)
(* each whole half-life, which is how float64 scales by a power of two.    *)
(***************************************************************************)
EXTENDS Integers, Sequences, FiniteSets

\* ------------------------------------------------------------------ bounds

\* The handler goroutines that run concurrently.
Goroutines == {"g1", "g2"}

\* The readings time.Now() can give: 00:00:00, 00:00:30, 05:00:00, 10:00:00.
Instants == {0, 1, 600, 1200}

\* The amounts a request body can carry (AddDrink validates nothing).
DrinkAmounts == {95, -40}

\* The most AddDrink/AddCoffee calls of a run that takes all readings of the
\* clock and all amounts.
MaxEvents == 2

\* The most AddDrink/AddCoffee calls of a run within one tick of the clock:
\* the fourth append is the first one that finds room in the backing array.
MaxAppends == 4

\* The most AddDrink calls let start while a GenerateForecast call runs.
MaxOverlap == 1

\* The most AddDrink/AddCoffee calls of a run checked for completion.
MaxFairAdds == 1

\* --------------------------------------------------------------- constants

\* caffeinePerCupMg
CaffeinePerCupMg == 95

\* Ticks of the model's clock in one minute and in one hour.
TicksPerMinute == 2
TicksPerHour == 60 * TicksPerMinute
MinutesPerDay == 24 * 60

\* halfLifeHours (written 5.0 in CalculateCaffeineLevelAt), in ticks.
HalfLifeHours == 5
HalfLifeTicks == HalfLifeHours * TicksPerHour

\* GenerateForecast: 48 points, 30 minutes apart.
ForecastPoints == 48
ForecastStepMinutes == 30
ForecastStep == ForecastStepMinutes * TicksPerMinute

\* The unit of a float64 value is 1 / (Scale * 2^HalfLivesKept).
Scale == 10000

MaxInstant == CHOOSE t \in Instants : \A u \in Instants : u <= t

\* Whole half-lives that a query of the model can lie after an event.
HalfLivesKept ==
    ((MaxInstant + (ForecastPoints - 1) * ForecastStep) \div HalfLifeTicks) + 1

RECURSIVE Pow2(_)
Pow2(n) == IF n <= 0 THEN 1 ELSE 2 * Pow2(n - 1)

\* One mg in the model's unit.
Unit == Scale * Pow2(HalfLivesKept)

\* round(Scale * 0.5^(j / HalfLifeTicks)) for j = 0 .. HalfLifeTicks - 1.
PowTable == <<
    10000, 9988, 9977, 9965, 9954, 9942, 9931, 9919, 9908, 9897, 9885, 9874, 9862, 9851, 9840,
    9828, 9817, 9806, 9794, 9783, 9772, 9760, 9749, 9738, 9727, 9715, 9704, 9693, 9682, 9671,
    9659, 9648, 9637, 9626, 9615, 9604, 9593, 9582, 9571, 9559, 9548, 9537, 9526, 9515, 9504,
    9493, 9482, 9472, 9461, 9450, 9439, 9428, 9417, 9406, 9395, 9384, 9374, 9363, 9352, 9341,
    9330, 9320, 9309, 9298, 9287, 9277, 9266, 9255, 9244, 9234, 9223, 9213, 9202, 9191, 9181,
    9170, 9159, 9149, 9138, 9128, 9117, 9107, 9096, 9086, 9075, 9065, 9054, 9044, 9033, 9023,
    9013, 9002, 8992, 8981, 8971, 8961, 8950, 8940, 8930, 8919, 8909, 8899, 8888, 8878, 8868,
    8858, 8847, 8837, 8827, 8817, 8807, 8796, 8786, 8776, 8766, 8756, 8746, 8736, 8726, 8716,
    8706, 8695, 8685, 8675, 8665, 8655, 8645, 8635, 8625, 8615, 8606, 8596, 8586, 8576, 8566,
    8556, 8546, 8536, 8526, 8517, 8507, 8497, 8487, 8477, 8467, 8458, 8448, 8438, 8428, 8419,
    8409, 8399, 8390, 8380, 8370, 8361, 8351, 8341, 8332, 8322, 8312, 8303, 8293, 8284, 8274,
    8265, 8255, 8245, 8236, 8226, 8217, 8207, 8198, 8188, 8179, 8170, 8160, 8151, 8141, 8132,
    8123, 8113, 8104, 8094, 8085, 8076, 8066, 8057, 8048, 8039, 8029, 8020, 8011, 8001, 7992,
    7983, 7974, 7965, 7955, 7946, 7937, 7928, 7919, 7910, 7900, 7891, 7882, 7873, 7864, 7855,
    7846, 7837, 7828, 7819, 7810, 7801, 7792, 7783, 7774, 7765, 7756, 7747, 7738, 7729, 7720,
    7711, 7702, 7693, 7684, 7676, 7667, 7658, 7649, 7640, 7631, 7622, 7614, 7605, 7596, 7587,
    7579, 7570, 7561, 7552, 7544, 7535, 7526, 7518, 7509, 7500, 7492, 7483, 7474, 7466, 7457,
    7448, 7440, 7431, 7423, 7414, 7405, 7397, 7388, 7380, 7371, 7363, 7354, 7346, 7337, 7329,
    7320, 7312, 7304, 7295, 7287, 7278, 7270, 7261, 7253, 7245, 7236, 7228, 7220, 7211, 7203,
    7195, 7186, 7178, 7170, 7161, 7153, 7145, 7137, 7128, 7120, 7112, 7104, 7096, 7087, 7079,
    7071, 7063, 7055, 7047, 7038, 7030, 7022, 7014, 7006, 6998, 6990, 6982, 6974, 6966, 6958,
    6950, 6942, 6934, 6926, 6918, 6910, 6902, 6894, 6886, 6878, 6870, 6862, 6854, 6846, 6838,
    6830, 6822, 6814, 6807, 6799, 6791, 6783, 6775, 6767, 6760, 6752, 6744, 6736, 6728, 6721,
    6713, 6705, 6697, 6690, 6682, 6674, 6666, 6659, 6651, 6643, 6636, 6628, 6620, 6613, 6605,
    6598, 6590, 6582, 6575, 6567, 6560, 6552, 6544, 6537, 6529, 6522, 6514, 6507, 6499, 6492,
    6484, 6477, 6469, 6462, 6454, 6447, 6439, 6432, 6425, 6417, 6410, 6402, 6395, 6388, 6380,
    6373, 6365, 6358, 6351, 6343, 6336, 6329, 6321, 6314, 6307, 6300, 6292, 6285, 6278, 6271,
    6263, 6256, 6249, 6242, 6234, 6227, 6220, 6213, 6206, 6199, 6191, 6184, 6177, 6170, 6163,
    6156, 6149, 6142, 6134, 6127, 6120, 6113, 6106, 6099, 6092, 6085, 6078, 6071, 6064, 6057,
    6050, 6043, 6036, 6029, 6022, 6015, 6008, 6001, 5994, 5987, 5980, 5974, 5967, 5960, 5953,
    5946, 5939, 5932, 5925, 5919, 5912, 5905, 5898, 5891, 5885, 5878, 5871, 5864, 5857, 5851,
    5844, 5837, 5830, 5824, 5817, 5810, 5804, 5797, 5790, 5783, 5777, 5770, 5763, 5757, 5750,
    5743, 5737, 5730, 5724, 5717, 5710, 5704, 5697, 5691, 5684, 5678, 5671, 5664, 5658, 5651,
    5645, 5638, 5632, 5625, 5619, 5612, 5606, 5599, 5593, 5586, 5580, 5574, 5567, 5561, 5554,
    5548, 5541, 5535, 5529, 5522, 5516, 5510, 5503, 5497, 5490, 5484, 5478, 5471, 5465, 5459,
    5453, 5446, 5440, 5434, 5427, 5421, 5415, 5409, 5402, 5396, 5390, 5384, 5377, 5371, 5365,
    5359, 5353, 5346, 5340, 5334, 5328, 5322, 5316, 5310, 5303, 5297, 5291, 5285, 5279, 5273,
    5267, 5261, 5255, 5249, 5243, 5236, 5230, 5224, 5218, 5212, 5206, 5200, 5194, 5188, 5182,
    5176, 5170, 5164, 5158, 5152, 5147, 5141, 5135, 5129, 5123, 5117, 5111, 5105, 5099, 5093,
    5087, 5082, 5076, 5070, 5064, 5058, 5052, 5046, 5041, 5035, 5029, 5023, 5017, 5012, 5006
    >>

\* ------------------------------------------------- events and the slice

Free == "free"

\* The zero time.Time (year 1), a midnight before every instant.
ZeroTime == 0 - MinutesPerDay * TicksPerMinute

\* CoffeeIntakeEvent behind a validation that takes a negative amount for 0.
CoffeeIntakeEventClamped(t, a) ==
    [Time |-> t, Amount |-> IF a < 0 THEN 0 ELSE a]

\* CoffeeIntakeEvent{Time, Amount}; ZeroEvent is its zero value, which fills
\* the cells of a backing array past the slice's length.
CoffeeIntakeEvent(t, a) == [Time |-> t, Amount |-> a]
ZeroEvent == CoffeeIntakeEvent(ZeroTime, 0)

\* A slice value: backing array (an index into heap), length and capacity.
SliceHeader(p, n, c) == [ptr |-> p, len |-> n, cap |-> c]
NilSlice == SliceHeader(0, 0, 0)

\* What a slice value shows its holder: cells 1 .. len of its backing array.
View(h, s) == [k \in 1..s.len |-> h[s.ptr][k]]

\* The capacity append grows a full slice to (32-byte elements: 1, 2, 4, 8).
GrowCap(c) == IF c = 0 THEN 1 ELSE 2 * c

\* AppendSlice as a bounded history would have it: a full slice of two or
\* more events drops its oldest event and shifts the rest down in place.
AppendSliceRing(h, s, e) ==
    IF s.len < s.cap
    THEN [heap |-> [h EXCEPT ![s.ptr][s.len + 1] = e],
          hdr  |-> SliceHeader(s.ptr, s.len + 1, s.cap)]
    ELSE IF s.cap < 2
    THEN [heap |-> Append(h, [k \in 1..GrowCap(s.cap) |->
                                 IF k <= s.len THEN h[s.ptr][k] ELSE e]),
          hdr  |-> SliceHeader(Len(h) + 1, s.len + 1, GrowCap(s.cap))]
    ELSE [heap |-> [h EXCEPT ![s.ptr] = Append(Tail(@), e)],
          hdr  |-> s]

\* AppendSlice as a newest-first log would have it: the event goes in
\* front, into a fresh array.
AppendSliceFront(h, s, e) ==
    [heap |-> Append(h, <<e>> \o View(h, s)),
     hdr  |-> SliceHeader(Len(h) + 1, s.len + 1, s.len + 1)]

\* append(s, e): in place when there is room, else into a fresh array that
\* holds a copy of the old cells.  The old array is left as it was.
AppendSlice(h, s, e) ==
    IF s.len < s.cap
    THEN [heap |-> [h EXCEPT ![s.ptr][s.len + 1] = e],
          hdr  |-> SliceHeader(s.ptr, s.len + 1, s.cap)]
    ELSE LET c   == GrowCap(s.cap)
             arr == [k \in 1..c |->
                        IF k <= s.len THEN h[s.ptr][k]
                        ELSE IF k = s.len + 1 THEN e ELSE ZeroEvent]
         IN  [heap |-> Append(h, arr),
              hdr  |-> SliceHeader(Len(h) + 1, s.len + 1, c)]

\* ---------------------------------------------------------------- decay

\* Elapsed with the operands of Sub swapped.
ElapsedSwapped(targetTime, event) == event.Time - targetTime

\* timeElapsed := targetTime.Sub(event.Time), in ticks.
Elapsed(targetTime, event) == targetTime - event.Time

\* IsFuture with <= for <.
IsFutureOrNow(elapsed) == elapsed <= 0

\* if timeElapsedHours < 0 { continue }
IsFuture(elapsed) == elapsed < 0

\* PowHalf without the division by the half-life: math.Pow(0.5, hours).
PowHalfPerHour(elapsed) ==
    LET q == elapsed \div TicksPerHour
        r == (elapsed % TicksPerHour) * HalfLifeHours
    IN  IF q <= HalfLivesKept
        THEN PowTable[r + 1] * Pow2(HalfLivesKept - q)
        ELSE PowTable[r + 1] \div Pow2(q - HalfLivesKept)

\* math.Pow(0.5, timeElapsedHours/5.0) in units of 1 / Unit.
PowHalf(elapsed) ==
    LET q == elapsed \div HalfLifeTicks
        r == elapsed % HalfLifeTicks
    IN  IF q <= HalfLivesKept
        THEN PowTable[r + 1] * Pow2(HalfLivesKept - q)
        ELSE PowTable[r + 1] \div Pow2(q - HalfLivesKept)

\* remainingCaffeine := event.Amount * math.Pow(...)
RemainingCaffeine(event, targetTime) ==
    event.Amount * PowHalf(Elapsed(targetTime, event))

\* Accumulate with -= for +=.
AccumulateSubtract(totalCaffeine, remainingCaffeine) ==
    totalCaffeine - remainingCaffeine

\* Accumulate with = for +=.
AccumulateOverwrite(totalCaffeine, remainingCaffeine) == remainingCaffeine

\* totalCaffeine += remainingCaffeine
Accumulate(totalCaffeine, remainingCaffeine) == totalCaffeine + remainingCaffeine

\* for _, event := range t.events { ... }, from the k-th event on.
RECURSIVE SumLoop(_, _, _, _)
SumLoop(evs, k, targetTime, totalCaffeine) ==
    IF k > Len(evs) THEN totalCaffeine
    ELSE IF IsFuture(Elapsed(targetTime, evs[k]))
         THEN SumLoop(evs, k + 1, targetTime, totalCaffeine)
         ELSE SumLoop(evs, k + 1, targetTime,
                      Accumulate(totalCaffeine,
                                 RemainingCaffeine(evs[k], targetTime)))

\* The body of CalculateCaffeineLevelAt between Lock and Unlock.
LevelOf(evs, targetTime) ==
    IF Len(evs) = 0 THEN 0 ELSE SumLoop(evs, 1, targetTime, 0)

\* ------------------------------------------------------------- forecast

\* targetTime := now.Add(time.Duration(i*30) * time.Minute)
TargetTime(now, i) == now + i * ForecastStep

\* t.Format("15:04"): the hour and minute of the day, nothing else.
FormatHHMM(t) == (t \div TicksPerMinute) % MinutesPerDay

\* The scan for a drink at targetTime: the first event whose "15:04" is
\* that of targetTime, or 0 when there is none.
RECURSIVE FirstMatch(_, _, _)
FirstMatch(evs, k, targetTime) ==
    IF k > Len(evs) THEN 0
    ELSE IF FormatHHMM(evs[k].Time) = FormatHHMM(targetTime) THEN k
         ELSE FirstMatch(evs, k + 1, targetTime)

ForecastPoint(targetTime, caffeine, evs) ==
    LET m == FirstMatch(evs, 1, targetTime)
    IN  [Time        |-> targetTime,
         Caffeine    |-> caffeine,
         HasDrink    |-> m # 0,
         DrinkAmount |-> IF m # 0 THEN evs[m].Amount ELSE 0]

\* No point appended yet.
NoPoint == [Time |-> 0, Caffeine |-> 0, HasDrink |-> FALSE, DrinkAmount |-> 0]

\* LoopContinues with <= for <.
LoopContinuesInclusive(i) == i <= ForecastPoints

\* for i := 0; i < 48; i++
LoopContinues(i) == i < ForecastPoints

\* ---------------------------------------------------------------- state

VARIABLES
    clock,       \* the last reading of time.Now()
    mu,          \* Tracker.mu: Free, or the goroutine that holds it
    events,      \* Tracker.events, a slice header
    heap,        \* the backing arrays allocated so far
    pc,          \* where each goroutine stands
    frame,       \* the method a goroutine's handler called
    amount,      \* AddDrink's amount
    hdr,         \* a slice value in a goroutine's hands
    targetTime,  \* CalculateCaffeineLevelAt's targetTime
    total,       \* totalCaffeine, as returned
    fnow,        \* GenerateForecast's now
    fi,          \* GenerateForecast's i
    forecast,    \* GenerateForecast's forecast: the Time of each point
    point,       \* the ForecastPoint appended last, whole
    snap,        \* history: the store's events when GetEvents read them
    budget,      \* the AddDrink/AddCoffee calls the run may still begin
    returned,    \* history: AddDrink/AddCoffee calls returned
    overlap,     \* history: AddDrink calls in the way of the running forecast
    resp         \* the status a handler wrote for its last request, or 0

vars == <<clock, mu, events, heap, pc, frame, amount, hdr, targetTime, total,
          fnow, fi, forecast, point, snap, budget, returned, overlap, resp>>

tracker == <<mu, events, heap>>
locals  == <<amount, hdr, targetTime, total, fnow, fi, forecast, point, snap>>
history == <<budget, returned, overlap, resp>>

\* The events the store holds.
Content == View(heap, events)

AddPcs == {"add_lock", "add_append", "add_store", "add_unlock"}
InAdd(g) == pc[g] \in AddPcs
ForecastRuns == \E g \in Goroutines : frame[g] = "forecast"

\* Readings of a clock that can step back.
ReadingsSteppingBack == Instants

\* time.Now(): a reading no earlier than the last one.
Readings == {t \in Instants : t >= clock}

\* NewTracker(), and every goroutine waiting for a request.
Start(c, n) ==
    /\ clock = c
    /\ budget = n
    /\ mu = Free
    /\ heap = << <<>> >>
    /\ events = SliceHeader(1, 0, 0)
    /\ pc = [g \in Goroutines |-> "idle"]
    /\ frame = [g \in Goroutines |-> "none"]
    /\ amount = [g \in Goroutines |-> 0]
    /\ hdr = [g \in Goroutines |-> NilSlice]
    /\ targetTime = [g \in Goroutines |-> 0]
    /\ total = [g \in Goroutines |-> 0]
    /\ fnow = [g \in Goroutines |-> 0]
    /\ fi = [g \in Goroutines |-> 0]
    /\ forecast = [g \in Goroutines |-> << >>]
    /\ point = [g \in Goroutines |-> NoPoint]
    /\ snap = [g \in Goroutines |-> << >>]
    /\ returned = 0
    /\ overlap = 0
    /\ resp = [g \in Goroutines |-> 0]

\* The server starts at midnight.
Init == Start(0, MaxEvents)

\* The server starts at the last instant: every request falls into one tick.
InitStore == Start(MaxInstant, MaxAppends)

\* ------------------------------------------------------------ the mutex

\* Lock that does not wait for the mutex.
LockNoWait(g) == mu' = g

\* t.mu.Lock(): blocks until the mutex is free.
Lock(g) == mu = Free /\ mu' = g

\* Unlock left out: the mutex stays with its holder.
UnlockForgotten(g) == mu' = mu

\* defer t.mu.Unlock()
Unlock(g) == mu' = Free

\* The goroutine is back in its handler, its locals gone.
Return(g) ==
    /\ pc' = [pc EXCEPT ![g] = "idle"]
    /\ frame' = [frame EXCEPT ![g] = "none"]
    /\ amount' = [amount EXCEPT ![g] = 0]
    /\ hdr' = [hdr EXCEPT ![g] = NilSlice]
    /\ targetTime' = [targetTime EXCEPT ![g] = 0]
    /\ total' = [total EXCEPT ![g] = 0]
    /\ fnow' = [fnow EXCEPT ![g] = 0]
    /\ fi' = [fi EXCEPT ![g] = 0]
    /\ forecast' = [forecast EXCEPT ![g] = << >>]
    /\ point' = [point EXCEPT ![g] = NoPoint]
    /\ snap' = [snap EXCEPT ![g] = << >>]

\* ------------------------------------------------- AddDrink and AddCoffee

\* A call of AddDrink or AddCoffee begins.
BeginAdd(g, a) ==
    /\ pc[g] = "idle"
    /\ budget > 0
    /\ ForecastRuns => overlap < MaxOverlap
    /\ pc' = [pc EXCEPT ![g] = "add_lock"]
    /\ frame' = [frame EXCEPT ![g] = "add"]
    /\ amount' = [amount EXCEPT ![g] = a]
    /\ budget' = budget - 1
    /\ overlap' = IF ForecastRuns THEN overlap + 1 ELSE overlap
    /\ UNCHANGED <<clock, tracker, hdr, targetTime, total, fnow, fi, forecast,
                   point, snap, returned, resp>>

\* tracker.AddDrink(req.Amount)
CallAddDrink(g) == \E a \in DrinkAmounts : BeginAdd(g, a)

\* tracker.AddCoffee(): Amount: caffeinePerCupMg
CallAddCoffee(g) == BeginAdd(g, CaffeinePerCupMg)

AddLock(g) ==
    /\ pc[g] = "add_lock"
    /\ Lock(g)
    /\ pc' = [pc EXCEPT ![g] = "add_append"]
    /\ UNCHANGED <<clock, events, heap, frame, locals, history>>

\* event := CoffeeIntakeEvent{Time: time.Now(), Amount: amount}, and the
\* append(t.events, event) on the right of the assignment.
AddAppend(g) ==
    /\ pc[g] = "add_append"
    /\ \E t \in Readings :
          LET r == AppendSlice(heap, events, CoffeeIntakeEvent(t, amount[g]))
          IN  /\ clock' = t
              /\ heap' = r.heap
              /\ hdr' = [hdr EXCEPT ![g] = r.hdr]
    /\ pc' = [pc EXCEPT ![g] = "add_store"]
    /\ UNCHANGED <<mu, events, frame, amount, targetTime, total, fnow, fi,
                   forecast, point, snap, history>>

\* t.events = ...: the three words of the slice header are stored.
AddStore(g) ==
    /\ pc[g] = "add_store"
    /\ events' = hdr[g]
    /\ pc' = [pc EXCEPT ![g] = "add_unlock"]
    /\ UNCHANGED <<clock, mu, heap, frame, locals, history>>

\* The deferred Unlock, and the return: to the caller, or to the handler of
\* /api/add-coffee, which has its response still to write.
AddUnlock(g) ==
    /\ pc[g] = "add_unlock"
    /\ Unlock(g)
    /\ IF frame[g] = "handler"
       THEN /\ pc' = [pc EXCEPT ![g] = "add_respond"]
            /\ UNCHANGED <<frame, locals>>
       ELSE Return(g)
    /\ returned' = returned + 1
    /\ UNCHANGED <<clock, events, heap, budget, overlap, resp>>

\* ------------------------------------------ the /api/add-coffee handlers

\* The methods and the bodies a request to /api/add-coffee comes with.
Methods == {"POST", "GET"}
Bodies == {"{\"amount\":95}", "{\"amount\":-40}", "{}", "coffee"}

StatusOK == 200
StatusBadRequest == 400
StatusMethodNotAllowed == 405

\* json.NewDecoder(r.Body).Decode(&req): a JSON object fills req.Amount from
\* its "amount" and leaves it 0 when it has none; anything else is an error
\* and leaves req as it was declared.
Decode(body) ==
    CASE body = "{\"amount\":95}"  -> [err |-> FALSE, Amount |-> 95]
      [] body = "{\"amount\":-40}" -> [err |-> FALSE, Amount |-> -40]
      [] body = "{}"               -> [err |-> FALSE, Amount |-> 0]
      [] OTHER                     -> [err |-> TRUE, Amount |-> 0]

\* http.Error(w, ..., code); return: the handler is done, the Tracker
\* never called.
Reject(g, code) ==
    /\ resp' = [resp EXCEPT ![g] = code]
    /\ UNCHANGED <<clock, tracker, pc, frame, locals, budget, returned, overlap>>

\* The handler goes on to tracker.AddDrink(a) or tracker.AddCoffee(), with
\* code written to its response so far.
Enter(g, a, code) ==
    /\ budget > 0
    /\ ForecastRuns => overlap < MaxOverlap
    /\ pc' = [pc EXCEPT ![g] = "add_lock"]
    /\ frame' = [frame EXCEPT ![g] = "handler"]
    /\ amount' = [amount EXCEPT ![g] = a]
    /\ budget' = budget - 1
    /\ overlap' = IF ForecastRuns THEN overlap + 1 ELSE overlap
    /\ resp' = [resp EXCEPT ![g] = code]
    /\ UNCHANGED <<clock, tracker, hdr, targetTime, total, fnow, fi, forecast,
                   point, snap, returned>>

\* HandleAddDrink without the return after "Invalid request body".
HandleAddDrinkNoReturn(g) ==
    /\ pc[g] = "idle"
    /\ \E m \in Methods, b \in Bodies :
          IF m # "POST" THEN Reject(g, StatusMethodNotAllowed)
          ELSE IF Decode(b).err
               THEN Enter(g, Decode(b).Amount, StatusBadRequest)
               ELSE Enter(g, Decode(b).Amount, 0)

\* The handler of /api/add-coffee that takes a DrinkRequest, up to its call
\* of AddDrink.
HandleAddDrink(g) ==
    /\ pc[g] = "idle"
    /\ \E m \in Methods, b \in Bodies :
          IF m # "POST" THEN Reject(g, StatusMethodNotAllowed)
          ELSE IF Decode(b).err THEN Reject(g, StatusBadRequest)
          ELSE Enter(g, Decode(b).Amount, 0)

\* The handler of /api/add-coffee of caffeine_tracker.go, which reads no
\* body, up to its call of AddCoffee.
HandleAddCoffee(g) ==
    /\ pc[g] = "idle"
    /\ \E m \in Methods :
          IF m # "POST" THEN Reject(g, StatusMethodNotAllowed)
          ELSE Enter(g, CaffeinePerCupMg, 0)

\* w.WriteHeader(http.StatusOK) and the "success" body, after the call.
AddRespond(g) ==
    /\ pc[g] = "add_respond"
    /\ resp' = [resp EXCEPT ![g] = StatusOK]
    /\ Return(g)
    /\ UNCHANGED <<clock, tracker, budget, returned, overlap>>

\* --------------------------------------------- CalculateCaffeineLevelAt

\* tracker.CalculateCaffeineLevelAt(t), for a query time of the caller's.
CallCalculateCaffeineLevelAt(g) ==
    /\ pc[g] = "idle"
    /\ \E t \in Instants : targetTime' = [targetTime EXCEPT ![g] = t]
    /\ pc' = [pc EXCEPT ![g] = "calc_lock"]
    /\ frame' = [frame EXCEPT ![g] = "level"]
    /\ UNCHANGED <<clock, tracker, amount, hdr, total, fnow, fi, forecast,
                   point, snap, history>>

\* CalcLock that does not take the mutex.
CalcNoLock(g) ==
    /\ pc[g] = "calc_lock"
    /\ pc' = [pc EXCEPT ![g] = "calc_sum"]
    /\ UNCHANGED <<clock, tracker, frame, locals, history>>

CalcLock(g) ==
    /\ pc[g] = "calc_lock"
    /\ Lock(g)
    /\ pc' = [pc EXCEPT ![g] = "calc_sum"]
    /\ UNCHANGED <<clock, events, heap, frame, locals, history>>

\* The summation over t.events.
CalcSum(g) ==
    /\ pc[g] = "calc_sum"
    /\ total' = [total EXCEPT ![g] = LevelOf(View(heap, events), targetTime[g])]
    /\ pc' = [pc EXCEPT ![g] = "calc_unlock"]
    /\ UNCHANGED <<clock, tracker, frame, amount, hdr, targetTime, fnow, fi,
                   forecast, point, snap, history>>

\* The deferred Unlock; the level goes to the handler, or to GenerateForecast.
CalcUnlock(g) ==
    /\ pc[g] = "calc_unlock"
    /\ Unlock(g)
    /\ IF frame[g] = "forecast"
       THEN /\ pc' = [pc EXCEPT ![g] = "fc_scan"]
            /\ UNCHANGED <<frame, locals>>
       ELSE Return(g)
    /\ UNCHANGED <<clock, events, heap, history>>

\* ---------------------------------------- CalculateCurrentCaffeineLevel

CallCalculateCurrentCaffeineLevel(g) ==
    /\ pc[g] = "idle"
    /\ pc' = [pc EXCEPT ![g] = "cur_lock"]
    /\ frame' = [frame EXCEPT ![g] = "current"]
    /\ UNCHANGED <<clock, tracker, locals, history>>

CurLock(g) ==
    /\ pc[g] = "cur_lock"
    /\ Lock(g)
    /\ pc' = [pc EXCEPT ![g] = "cur_sum"]
    /\ UNCHANGED <<clock, events, heap, frame, locals, history>>

\* now := time.Now(), and the summation over t.events.
CurSum(g) ==
    /\ pc[g] = "cur_sum"
    /\ \E t \in Readings :
          /\ clock' = t
          /\ targetTime' = [targetTime EXCEPT ![g] = t]
          /\ total' = [total EXCEPT ![g] = LevelOf(View(heap, events), t)]
    /\ pc' = [pc EXCEPT ![g] = "cur_unlock"]
    /\ UNCHANGED <<tracker, frame, amount, hdr, fnow, fi, forecast, point,
                   snap, history>>

CurUnlock(g) ==
    /\ pc[g] = "cur_unlock"
    /\ Unlock(g)
    /\ Return(g)
    /\ UNCHANGED <<clock, events, heap, history>>

\* ------------------------------------------------------------ GetEvents

CallGetEvents(g) ==
    /\ pc[g] = "idle"
    /\ pc' = [pc EXCEPT ![g] = "get_lock"]
    /\ frame' = [frame EXCEPT ![g] = "events"]
    /\ UNCHANGED <<clock, tracker, locals, history>>

GetLock(g) ==
    /\ pc[g] = "get_lock"
    /\ Lock(g)
    /\ pc' = [pc EXCEPT ![g] = "get_read"]
    /\ UNCHANGED <<clock, events, heap, frame, locals, history>>

\* GetRead that hands the events over and empties the store:
\* t.events = t.events[:0].
GetReadDrain(g) ==
    /\ pc[g] = "get_read"
    /\ hdr' = [hdr EXCEPT ![g] = events]
    /\ snap' = [snap EXCEPT ![g] = Content]
    /\ events' = SliceHeader(events.ptr, 0, events.cap)
    /\ pc' = [pc EXCEPT ![g] = "get_unlock"]
    /\ UNCHANGED <<clock, mu, heap, frame, amount, targetTime, total, fnow, fi,
                   forecast, point, history>>

\* return t.events: the slice header is the result; no cell is copied.
GetRead(g) ==
    /\ pc[g] = "get_read"
    /\ hdr' = [hdr EXCEPT ![g] = events]
    /\ snap' = [snap EXCEPT ![g] = Content]
    /\ pc' = [pc EXCEPT ![g] = "get_unlock"]
    /\ UNCHANGED <<clock, tracker, frame, amount, targetTime, total, fnow, fi,
                   forecast, point, history>>

\* The deferred Unlock; the handler has the slice from here on.
GetUnlock(g) ==
    /\ pc[g] = "get_unlock"
    /\ Unlock(g)
    /\ pc' = [pc EXCEPT ![g] = "get_use"]
    /\ UNCHANGED <<clock, events, heap, frame, locals, history>>

\* json.NewEncoder(w).Encode(events) is done with the slice.
GetUse(g) ==
    /\ pc[g] = "get_use"
    /\ Return(g)
    /\ UNCHANGED <<clock, tracker, history>>

\* ----------------------------------------------------- GenerateForecast

\* The pc of the loop head: one more call of CalculateCaffeineLevelAt, or
\* return forecast.
LoopHead(i) == IF LoopContinues(i) THEN "calc_lock" ELSE "fc_return"

\* now := time.Now(); forecast := make([]ForecastPoint, 0); i := 0
CallGenerateForecast(g) ==
    /\ pc[g] = "idle"
    /\ ~ForecastRuns
    /\ Cardinality({h \in Goroutines : InAdd(h)}) <= MaxOverlap
    /\ \E t \in Readings :
          /\ clock' = t
          /\ fnow' = [fnow EXCEPT ![g] = t]
          /\ targetTime' = [targetTime EXCEPT ![g] = TargetTime(t, 0)]
    /\ fi' = [fi EXCEPT ![g] = 0]
    /\ forecast' = [forecast EXCEPT ![g] = << >>]
    /\ point' = [point EXCEPT ![g] = NoPoint]
    /\ frame' = [frame EXCEPT ![g] = "forecast"]
    /\ pc' = [pc EXCEPT ![g] = LoopHead(0)]
    /\ overlap' = Cardinality({h \in Goroutines : InAdd(h)})
    /\ UNCHANGED <<tracker, amount, hdr, total, snap, budget, returned, resp>>

\* The slice headers the read of t.events at the range statement can load.
\* It holds no mutex: against a store of the header in flight it loads each
\* of the three words from before or from after the store.
RacyHeaders ==
    {events} \cup
    UNION {{SliceHeader(a.ptr, b.len, c.cap) :
                a \in {events, hdr[w]}, b \in {events, hdr[w]},
                c \in {events, hdr[w]}} :
           w \in {h \in Goroutines : pc[h] = "add_store"}}

\* What lies behind a cell read past the end of a backing array.
StrayCells == {ZeroEvent, CoffeeIntakeEvent(0, CaffeinePerCupMg)}

\* The event sequences a range over slice value s can see.
RacyViews(s) ==
    IF s.len <= Len(heap[s.ptr])
    THEN {View(heap, s)}
    ELSE {[k \in 1..s.len |->
              IF k <= Len(heap[s.ptr]) THEN heap[s.ptr][k] ELSE x] :
          x \in StrayCells}

\* for _, event := range t.events { ... }; forecast = append(forecast, ...);
\* i++
FcScan(g) ==
    /\ pc[g] = "fc_scan"
    /\ \E s \in RacyHeaders : \E evs \in RacyViews(s) :
          point' = [point EXCEPT ![g] =
                       ForecastPoint(targetTime[g], total[g], evs)]
    /\ forecast' = [forecast EXCEPT ![g] = Append(@, targetTime[g])]
    /\ fi' = [fi EXCEPT ![g] = @ + 1]
    /\ targetTime' = [targetTime EXCEPT ![g] = TargetTime(fnow[g], fi[g] + 1)]
    /\ total' = [total EXCEPT ![g] = 0]
    /\ pc' = [pc EXCEPT ![g] = LoopHead(fi[g] + 1)]
    /\ UNCHANGED <<clock, tracker, frame, amount, hdr, fnow, snap, history>>

\* return forecast
FcReturn(g) ==
    /\ pc[g] = "fc_return"
    /\ Return(g)
    /\ overlap' = 0
    /\ UNCHANGED <<clock, tracker, budget, returned, resp>>

\* ------------------------------------------------------ specifications

\* The server of caffeine_tracker.go and of the AddDrink variant: adds,
\* level queries and the history, on two handler goroutines.
Next ==
    \E g \in Goroutines :
        \/ CallAddDrink(g)
        \/ CallAddCoffee(g)
        \/ AddLock(g)
        \/ AddAppend(g)
        \/ AddStore(g)
        \/ AddUnlock(g)
        \/ CallCalculateCaffeineLevelAt(g)
        \/ CalcLock(g)
        \/ CalcSum(g)
        \/ CalcUnlock(g)
        \/ CallCalculateCurrentCaffeineLevel(g)
        \/ CurLock(g)
        \/ CurSum(g)
        \/ CurUnlock(g)
        \/ CallGetEvents(g)
        \/ GetLock(g)
        \/ GetRead(g)
        \/ GetUnlock(g)
        \/ GetUse(g)

Spec == Init /\ [][Next]_vars

\* The same server with all its requests in one tick, and room for more of
\* them.
SpecStore == InitStore /\ [][Next]_vars

\* The server with /api/forecast: one forecast at a time, against adds.
NextForecast ==
    \E g \in Goroutines :
        \/ CallAddDrink(g)
        \/ AddLock(g)
        \/ AddAppend(g)
        \/ AddStore(g)
        \/ AddUnlock(g)
        \/ CallGenerateForecast(g)
        \/ CalcLock(g)
        \/ CalcSum(g)
        \/ CalcUnlock(g)
        \/ FcScan(g)
        \/ FcReturn(g)

SpecForecast == Init /\ [][NextForecast]_vars

\* The requests to /api/add-coffee, good and bad, on two handler goroutines.
NextHTTP ==
    \E g \in Goroutines :
        \/ HandleAddDrink(g)
        \/ HandleAddCoffee(g)
        \/ AddLock(g)
        \/ AddAppend(g)
        \/ AddStore(g)
        \/ AddUnlock(g)
        \/ AddRespond(g)

SpecHTTP == Init /\ [][NextHTTP]_vars

\* The server with every request at the last instant, and few adds.
InitServer == Start(MaxInstant, MaxEvents)

\* The server whole: every method of the Tracker, the forecast among them,
\* on two handler goroutines.
NextServer ==
    \E g \in Goroutines :
        \/ CallAddDrink(g)
        \/ CallAddCoffee(g)
        \/ AddLock(g)
        \/ AddAppend(g)
        \/ AddStore(g)
        \/ AddUnlock(g)
        \/ CallCalculateCaffeineLevelAt(g)
        \/ CalcLock(g)
        \/ CalcSum(g)
        \/ CalcUnlock(g)
        \/ CallCalculateCurrentCaffeineLevel(g)
        \/ CurLock(g)
        \/ CurSum(g)
        \/ CurUnlock(g)
        \/ CallGetEvents(g)
        \/ GetLock(g)
        \/ GetRead(g)
        \/ GetUnlock(g)
        \/ GetUse(g)
        \/ CallGenerateForecast(g)
        \/ FcScan(g)
        \/ FcReturn(g)

\* The steps of a call that wait for nothing: a goroutine that can run
\* is scheduled.
Runs(g) ==
    \/ AddAppend(g) \/ AddStore(g) \/ AddUnlock(g)
    \/ CalcSum(g) \/ CalcUnlock(g)
    \/ CurSum(g) \/ CurUnlock(g)
    \/ GetRead(g) \/ GetUnlock(g) \/ GetUse(g)
    \/ FcScan(g) \/ FcReturn(g)

\* The calls of t.mu.Lock().  sync.Mutex hands a mutex that is unlocked
\* again and again to the goroutine that has waited for it (its starvation
\* mode), so a waiter is not passed over forever.
Locks(g) == AddLock(g) \/ CalcLock(g) \/ CurLock(g) \/ GetLock(g)

Fairness == \A g \in Goroutines : WF_vars(Runs(g)) /\ SF_vars(Locks(g))

SpecServer == InitServer /\ [][NextServer]_vars

\* The same server under fair scheduling, with fewer adds.
InitFair == Start(MaxInstant, MaxFairAdds)

SpecServerFair == InitFair /\ [][NextServer]_vars /\ Fairness

\* --------------------------------------------------------------- claims

IsPrefix(a, b) == Len(a) <= Len(b) /\ \A k \in 1..Len(a) : a[k] = b[k]

\* An event as AddDrink or AddCoffee builds it.
WellFormed(e) ==
    /\ e.Time \in Instants
    /\ e.Amount \in DrinkAmounts \cup {CaffeinePerCupMg}

\* The goroutines whose summation has run and that still hold its result
\* and the mutex.
Summed == {g \in Goroutines : pc[g] \in {"calc_unlock", "cur_unlock"}}

\* The events of evs that are not after t.
PastEvents(evs, t) == SelectSeq(evs, LAMBDA e : e.Time <= t)

\* The decayed amounts of evs at t, every event counted.
RECURSIVE PlainSum(_, _)
PlainSum(evs, t) ==
    IF evs = << >> THEN 0
    ELSE RemainingCaffeine(Head(evs), t) + PlainSum(Tail(evs), t)

\* What one event adds to the level at t.
Contribution(e, t) == IF e.Time > t THEN 0 ELSE RemainingCaffeine(e, t)

\* The contributions of evs at t, summed from the last event back.
RECURSIVE SumOfContributions(_, _)
SumOfContributions(evs, t) ==
    IF evs = << >> THEN 0
    ELSE SumOfContributions(SubSeq(evs, 1, Len(evs) - 1), t)
         + Contribution(evs[Len(evs)], t)

\* C1: no lost updates.  Every AddDrink/AddCoffee call that has stored the
\* slice header has appended exactly one event: the store holds one event
\* for each call that returned and one for each call that stands before
\* its Unlock; once all calls have returned its length is their number.
C1_NoLostUpdates ==
    /\ Len(Content) =
          returned + Cardinality({g \in Goroutines : pc[g] = "add_unlock"})
    /\ (\A g \in Goroutines : ~InAdd(g)) => Len(Content) = returned

\* Two calls returned, and two more in flight at once: one has appended, the
\* other waits for the mutex.
C1_Witness ==
    /\ returned >= 2
    /\ \E g, h \in Goroutines : pc[g] = "add_unlock" /\ pc[h] = "add_lock"

\* C2: every access to the event sequence is made with the mutex held: a
\* goroutine about to append to t.events or to read it holds t.mu, so no
\* goroutine reads the sequence without the mutex while another appends.
C2_AllAccessUnderMutex ==
    /\ \A g \in Goroutines :
          pc[g] \in {"add_append", "add_store", "calc_sum", "cur_sum",
                     "get_read", "fc_scan"} => mu = g
    /\ \A g, h \in Goroutines :
          ~(pc[g] = "fc_scan" /\ pc[h] \in {"add_append", "add_store"})

\* C3: snapshot isolation.  The slice GetEvents returned shows its holder
\* the events the store held at the instant of the read, all of them whole
\* and a prefix of what the store holds now, whatever was appended since.
C3_SnapshotIsolation ==
    \A g \in Goroutines :
        pc[g] \in {"get_unlock", "get_use"} =>
            /\ View(heap, hdr[g]) = snap[g]
            /\ IsPrefix(snap[g], Content)
            /\ \A k \in 1..Len(snap[g]) : WellFormed(snap[g][k])

\* A handler holds a returned slice of some events, and the store has since
\* appended in place to the very array the slice points into.
C3_Witness ==
    \E g \in Goroutines :
        /\ pc[g] = "get_use"
        /\ hdr[g].len > 0
        /\ hdr[g].ptr = events.ptr
        /\ hdr[g].len < events.len

\* C4: append-only log.  No step shortens the event sequence or changes an
\* event in it: the store's events before a step are a prefix of its
\* events after the step.
C4_AppendOnly == [][IsPrefix(Content, Content')]_vars

\* The store has grown to three events that are not all the same.
C4_Witness == Len(Content) >= 3 /\ Content[1] # Content[3]

C6_ForecastShape ==
    \A g \in Goroutines :
        frame[g] = "forecast" =>
            LET n == Len(forecast[g]) IN
            /\ n = fi[g]
            /\ \A k \in 1..n :
                  forecast[g][k] =
                      fnow[g] + (k - 1) * ForecastStepMinutes * TicksPerMinute
            /\ n > 0 => point[g].Time = forecast[g][n]
            /\ pc[g] = "fc_return" =>
                  /\ n = ForecastPoints
                  /\ forecast[g][1] = fnow[g]
                  /\ forecast[g][n] = fnow[g] + (23 * 60 + 30) * TicksPerMinute

\* GenerateForecast is about to return, and the store is empty.
C6_Witness ==
    \E g \in Goroutines : pc[g] = "fc_return" /\ Len(Content) = 0

\* C7: future events are ignored.  The level a summation returns is the
\* plain sum of the decayed amounts of the events that are not after the
\* query time: an event after it adds nothing.
C7_FutureEventsIgnored ==
    \A g \in Summed :
        total[g] = PlainSum(PastEvents(Content, targetTime[g]), targetTime[g])

\* A summation has run over a store with an event after the query time and
\* an event before it, and its result is not 0.
C7_Witness ==
    \E g \in Summed :
        /\ \E k \in 1..Len(Content) : Content[k].Time > targetTime[g]
        /\ \E k \in 1..Len(Content) : Content[k].Time < targetTime[g]
        /\ total[g] # 0

\* C8: single-dose decay.  With one event of dose C0 at t0 in the store,
\* the level at t0 + k * 5h is C0 / 2^k.
C8_HalfLifeMultiples ==
    \A g \in Summed :
        Len(Content) = 1 =>
            \A k \in 0..HalfLivesKept :
                targetTime[g] = Content[1].Time + k * HalfLifeHours * TicksPerHour
                    => total[g] * Pow2(k) = Content[1].Amount * Unit

\* One dose of 95 mg, queried two half-lives later: 23.75 mg.
C8_Witness ==
    \E g \in Summed :
        /\ Len(Content) = 1
        /\ Content[1].Amount = CaffeinePerCupMg
        /\ targetTime[g] = Content[1].Time + 2 * HalfLifeHours * TicksPerHour
        /\ total[g] * 4 = CaffeinePerCupMg * Unit

\* C9: additivity.  The level a summation returns is the sum of the single
\* contributions of the store's events; it is the level of any front part
\* of the store plus the level of the rest; over an empty store it is 0.
C9_Additivity ==
    \A g \in Summed :
        LET evs == Content
            t   == targetTime[g]
        IN  /\ total[g] = SumOfContributions(evs, t)
            /\ \A j \in 0..Len(evs) :
                  total[g] = LevelOf(SubSeq(evs, 1, j), t)
                             + LevelOf(SubSeq(evs, j + 1, Len(evs)), t)
            /\ Len(evs) = 0 => total[g] = 0

\* A summation has run over two events that both add to the level.
C9_Witness ==
    \E g \in Summed :
        /\ Len(Content) = 2
        /\ Contribution(Content[1], targetTime[g]) # 0
        /\ Contribution(Content[2], targetTime[g]) # 0

\* Query times t1 <= t2 strictly between two consecutive events of evs,
\* with no event in [t1, t2].
BetweenDoses(evs, t1, t2) ==
    /\ t1 <= t2
    /\ \E i \in 1..(Len(evs) - 1) : evs[i].Time < t1 /\ t2 < evs[i + 1].Time
    /\ \A k \in 1..Len(evs) : ~(t1 <= evs[k].Time /\ evs[k].Time <= t2)

\* C10 as the spec has it: between two consecutive doses the level does not
\* rise, for every event set.
C10_MonotoneBetweenDoses ==
    \A t1, t2 \in Instants :
        BetweenDoses(Content, t1, t2) =>
            LevelOf(Content, t2) <= LevelOf(Content, t1)

\* C10, amended: between two consecutive doses the level does not rise,
\* when no event of the store has a negative amount.
C10_MonotoneNonNegative ==
    (\A k \in 1..Len(Content) : Content[k].Amount >= 0) =>
        \A t1, t2 \in Instants :
            BetweenDoses(Content, t1, t2) =>
                LevelOf(Content, t2) <= LevelOf(Content, t1)

\* Two doses, none negative, and two query times between them at which the
\* level has fallen.
C10_Witness ==
    /\ \A k \in 1..Len(Content) : Content[k].Amount >= 0
    /\ \E t1, t2 \in Instants :
          /\ BetweenDoses(Content, t1, t2)
          /\ LevelOf(Content, t2) < LevelOf(Content, t1)

\* The minute an instant lies in, its date included.
Minute(t) == t \div TicksPerMinute

\* The indices of the events of evs that lie in the minute of t.
SameMinute(evs, t) == {k \in 1..Len(evs) : Minute(evs[k].Time) = Minute(t)}

\* The least index of a non-empty set of indices.
First(ks) == CHOOSE k \in ks : \A j \in ks : k <= j

\* C11: the point GenerateForecast appends for sample time ti has HasDrink
\* exactly when some stored event lies in the minute of ti, date and
\* hour:minute; DrinkAmount is then the amount of the first such event, and
\* 0 when there is none.  Stated of the scans during which no store of the
\* slice header is in flight, so that the scan sees the stored events.
C11_HasDrinkSameMinute ==
    [][\A g \in Goroutines :
          (pc[g] = "fc_scan" /\ pc'[g] # "fc_scan" /\ RacyHeaders = {events}) =>
              LET ms == SameMinute(Content, targetTime[g])
                  p  == point'[g]
              IN  /\ p.HasDrink = (ms # {})
                  /\ p.DrinkAmount =
                        IF ms # {} THEN Content[First(ms)].Amount ELSE 0]_vars

\* No event of evs has a negative amount.
NonNegative(evs) == \A k \in 1..Len(evs) : evs[k].Amount >= 0

\* C12: over a store whose events all have a non-negative amount, the level
\* is >= 0 at every query time, and so is the level a summation returned.
C12_LevelNonNegative ==
    NonNegative(Content) =>
        /\ \A g \in Summed : total[g] >= 0
        /\ \A t \in Instants : LevelOf(Content, t) >= 0

\* A summation has returned a level above 0 over two events, none negative.
C12_Witness ==
    \E g \in Summed :
        /\ Len(Content) = 2
        /\ NonNegative(Content)
        /\ total[g] > 0

\* C13: forecast consistency.  Two consecutive points of one forecast, the
\* Caffeine value and the HasDrink/DrinkAmount flags of the one appended
\* last and the Caffeine value summed for the next, are those of one and
\* the same event sequence, a content the store has had (a front part of
\* what it holds now), even when AddDrink calls run meanwhile.
C13_ForecastFromOneSnapshot ==
    [][\A g \in Goroutines :
          (/\ frame[g] = "forecast"
           /\ fi[g] > 0
           /\ pc[g] = "calc_sum"
           /\ pc'[g] = "calc_unlock") =>
              \E n \in 0..Len(Content) :
                  LET S == SubSeq(Content, 1, n)
                  IN  /\ point[g] =
                            ForecastPoint(point[g].Time, point[g].Caffeine, S)
                      /\ point[g].Caffeine = LevelOf(S, point[g].Time)
                      /\ total'[g] = LevelOf(S, targetTime[g])]_vars

\* The steps of the queries: every step of CalculateCaffeineLevelAt,
\* CalculateCurrentCaffeineLevel, GetEvents and GenerateForecast.
QueryStep(g) ==
    \/ CallCalculateCaffeineLevelAt(g) \/ CalcLock(g) \/ CalcSum(g)
    \/ CalcUnlock(g)
    \/ CallCalculateCurrentCaffeineLevel(g) \/ CurLock(g) \/ CurSum(g)
    \/ CurUnlock(g)
    \/ CallGetEvents(g) \/ GetLock(g) \/ GetRead(g) \/ GetUnlock(g)
    \/ GetUse(g)
    \/ CallGenerateForecast(g) \/ FcScan(g) \/ FcReturn(g)

\* C14: queries are read-only.  No step of CalculateCaffeineLevelAt,
\* CalculateCurrentCaffeineLevel, GetEvents or GenerateForecast changes the
\* Tracker's slice or the events it shows, and a step that changes them is
\* the store of AddDrink/AddCoffee, which adds one event at the end.
C14_QueriesReadOnly ==
    [][/\ (\E g \in Goroutines : QueryStep(g)) =>
             events' = events /\ Content' = Content
       /\ (events' # events \/ Content' # Content) =>
             \E g \in Goroutines :
                 /\ AddStore(g)
                 /\ Len(Content') = Len(Content) + 1
                 /\ IsPrefix(Content, Content')]_vars

\* A forecast has been returned and the slice of GetEvents is in a
\* handler's hands, over a store of two events.
C14_Witness ==
    /\ Len(Content) = 2
    /\ \E g, h \in Goroutines : pc[g] = "fc_return" /\ pc[h] = "get_use"

\* C15: with a clock that does not step back, the stored events are in
\* non-decreasing order of their timestamps, at every point of every
\* interleaving of AddDrink/AddCoffee calls, and no event is later than the
\* clock's last reading.
C15_EventsInTimeOrder ==
    /\ \A i, j \in 1..Len(Content) :
          i < j => Content[i].Time <= Content[j].Time
    /\ \A i \in 1..Len(Content) : Content[i].Time <= clock

\* A call stands before its Unlock with its event stored behind an event
\* of an earlier reading of the clock.
C15_Witness ==
    /\ Len(Content) = 2
    /\ Content[1].Time < Content[2].Time
    /\ \E g \in Goroutines : pc[g] = "add_unlock"

\* Where a goroutine stands before t.mu.Lock().
LockPcs == {"add_lock", "calc_lock", "cur_lock", "get_lock"}

\* C16: deadlock freedom and completion.  Under fair scheduling every call
\* of AddDrink, CalculateCaffeineLevelAt, CalculateCurrentCaffeineLevel,
\* GetEvents and GenerateForecast that has begun returns; the mutex is free
\* whenever no call is in progress; and no goroutine calls Lock while it
\* holds the mutex, GenerateForecast at each of its 48 calls of
\* CalculateCaffeineLevelAt included.
C16_CallsReturn ==
    /\ []((\A g \in Goroutines : pc[g] = "idle") => mu = Free)
    /\ [](\A g \in Goroutines : pc[g] \in LockPcs => mu # g)
    /\ \A g \in Goroutines : (pc[g] # "idle") ~> (pc[g] = "idle")

\* GenerateForecast, some points done, waits for the mutex at its next call
\* of CalculateCaffeineLevelAt while an AddDrink call holds it.
C16_Witness ==
    \E g, h \in Goroutines :
        /\ frame[g] = "forecast"
        /\ fi[g] > 0
        /\ pc[g] = "calc_lock"
        /\ InAdd(h)
        /\ mu = h

\* The goroutines whose AddDrink/AddCoffee call has not yet stored its event.
BeforeStore == {g \in Goroutines : pc[g] \in {"add_lock", "add_append", "add_store"}}

\* C17: a request to /api/add-coffee that is rejected, with 405 or with
\* 400, leaves the Tracker as it was and never reaches AddDrink; the store
\* holds one event for each request that was let through and has stored,
\* and the event a request stores has the amount decoded from its body (or
\* caffeinePerCupMg, in the handler that reads no body).
C17_RejectedLeavesStore ==
    [][/\ \A g \in Goroutines :
             (resp'[g] \in {StatusBadRequest, StatusMethodNotAllowed}
                 /\ resp'[g] # resp[g]) =>
                 /\ <<events, heap, mu>>' = <<events, heap, mu>>
                 /\ pc[g] = "idle" /\ pc'[g] = "idle"
       /\ \A g \in Goroutines :
             pc'[g] \in AddPcs \cup {"add_respond"} =>
                 /\ resp'[g] = 0
                 /\ \/ amount'[g] = CaffeinePerCupMg
                    \/ \E b \in Bodies :
                          ~Decode(b).err /\ amount'[g] = Decode(b).Amount
       /\ Len(Content') = (MaxEvents - budget') - Cardinality(BeforeStore')
       /\ Content' # Content =>
             \E g \in Goroutines :
                 /\ pc[g] = "add_store"
                 /\ Len(Content') = Len(Content) + 1
                 /\ IsPrefix(Content, Content')
                 /\ Content'[Len(Content')].Amount = amount[g]]_vars

\* Both handlers have rejected their last request, one with 400 and one
\* with 405, over a store of two events.
C17_Witness ==
    /\ Len(Content) = 2
    /\ \E g, h \in Goroutines :
          resp[g] = StatusBadRequest /\ resp[h] = StatusMethodNotAllowed

\* C18: AddDrink validates nothing and has no error outcome.  Whatever the
\* amount, zero and negative included, the call appends: its append builds
\* the store's events followed by one event of that amount and of the
\* reading of the clock taken at that step, its store makes them the
\* store's events, and the call then returns.
C18_NoValidation ==
    /\ [](\A g \in Goroutines :
             /\ pc[g] = "add_append" => ENABLED AddAppend(g)
             /\ pc[g] = "add_store" => ENABLED AddStore(g)
             /\ pc[g] = "add_unlock" => ENABLED AddUnlock(g))
    /\ [][\A g \in Goroutines :
             /\ (pc[g] = "add_append" /\ pc'[g] = "add_store") =>
                   /\ clock' >= clock
                   /\ View(heap', hdr'[g]) =
                         Append(Content,
                                [Time |-> clock', Amount |-> amount[g]])
             /\ (pc[g] = "add_store" /\ pc'[g] = "add_unlock") =>
                   Content' = View(heap, hdr[g])]_vars

\* The store holds an event of amount 0 and an event of a negative amount.
C18_Witness ==
    /\ Len(Content) = 2
    /\ \E i, j \in 1..2 : Content[i].Amount = 0 /\ Content[j].Amount < 0

====
